---- MODULE Spec2Model ----
(***************************************************************************)
(* Model of the clinical-notes normalization engine: load_replacements,    *)
(* apply_regex, bulk_replace and clean_notes (cleanser.py), and the copies *)
(* of the same engine in cleaner.py, cleansing4.py and cleansing6.py.      *)
(*                                                                         *)
(* A string is a sequence of one-character strings.  The regular           *)
(* expressions of the source are modelled by what Python's re module does  *)
(* with them: \b, \w, \s, an ordered alternation of escaped literals, and  *)
(* the left-to-right scan of Pattern.sub.                                  *)
(***************************************************************************)
EXTENDS Integers, Sequences, FiniteSets, TLC

VARIABLES
    engine,        \* which copy of the engine runs
    rows,          \* the rows of the dictionary CSV, as read by pd.read_csv
    replacements,  \* the dict built by load_replacements (insertion ordered)
    pattern,       \* the compiled pattern: the alternatives of \b(...)\b
    pc,            \* position of the program
    notes,         \* df['Clinical Notes'] of the current run
    original,      \* df['Original Notes']
    cleaned,       \* df['Cleaned Notes'], one entry per row processed so far
    counter,       \* the Counter of the current run / call
    matches,       \* the match objects handed to replace_match by the last sub
    run,           \* number of runs started
    text,          \* argument of a direct call of apply_regex / bulk_replace
    out,           \* result of that call
    out2           \* result of apply_regex applied to out

vars == <<engine, rows, replacements, pattern, pc, notes, original, cleaned,
          counter, matches, run, text, out, out2>>

----------------------------------------------------------------------------
(* Bounds of the model. *)

MaxRows == 2
MaxTextLen == 3
MaxNormLen == 4
MaxUnits == 2
MaxRuns == 2

----------------------------------------------------------------------------
(* Characters. *)

\* \w of Python's re on str patterns: letters, digits, underscore.
IsWord(c) == c \in {"a", "n", "x", "y", "A", "X", "_"}

\* \s of Python's re, which is also what str.strip() removes.
IsSpace(c) == c \in {" ", "\t", "\n"}

\* str.lower() on one character.
LowerChar(c) == CASE c = "A" -> "a"
                  [] c = "X" -> "x"
                  [] OTHER -> c

\* str.lower()
Lower(s) == [i \in 1..Len(s) |-> LowerChar(s[i])]

\* str.strip(): leading and trailing whitespace removed.
RECURSIVE LStrip(_)
LStrip(s) == IF s # <<>> /\ IsSpace(Head(s)) THEN LStrip(Tail(s)) ELSE s

RECURSIVE RStrip(_)
RStrip(s) == IF s # <<>> /\ IsSpace(s[Len(s)])
                THEN RStrip(SubSeq(s, 1, Len(s) - 1)) ELSE s

Strip(s) == RStrip(LStrip(s))

\* A missing cell of a data frame (NaN): a value that is no string.
NaN == <<"NaN">>

\* str(value), as astype(str) and str(text) apply it: text is kept, a missing
\* cell becomes the three characters nan.
Str(v) == IF v = NaN THEN <<"n", "a", "n">> ELSE v

\* All strings over an alphabet, up to a length.
RECURSIVE StringsUpTo(_, _)
StringsUpTo(alphabet, n) ==
    IF n = 0 THEN {<<>>}
    ELSE LET shorter == StringsUpTo(alphabet, n - 1)
         IN shorter \cup {Append(s, c) : s \in shorter, c \in alphabet}

\* All sequences over a set, up to a length.
SeqsUpTo(S, n) == UNION {[1..m -> S] : m \in 0..n}

----------------------------------------------------------------------------
(* Python dict and Counter. *)

\* A dict is the sequence of its items in insertion order.
DictKeys(d) == {d[i].k : i \in 1..Len(d)}

DictHas(d, key) == key \in DictKeys(d)

\* d[key], for a key that is present.
DictGet(d, key) == LET i == CHOOSE j \in 1..Len(d) : d[j].k = key IN d[i].v

\* DictSet that keeps the value a key already has (dict.setdefault).
DictSet_keep_first(d, key, value) ==
    IF DictHas(d, key) THEN d ELSE Append(d, [k |-> key, v |-> value])

\* d[key] = value: an existing key keeps its position and takes the new value,
\* a new key is appended.
DictSet(d, key, value) ==
    IF DictHas(d, key)
        THEN [i \in 1..Len(d) |-> IF d[i].k = key THEN [k |-> key, v |-> value]
                                                   ELSE d[i]]
        ELSE Append(d, [k |-> key, v |-> value])

\* Counter(): a function from the words counted so far to their counts.
EmptyCounter == [w \in {} |-> 0]

\* counter[word], which is 0 for a word never counted.
Count(c, word) == IF word \in DOMAIN c THEN c[word] ELSE 0

\* counter[word] += 1
Incr(c, word) == [w \in DOMAIN c \cup {word} |->
                    IF w = word THEN Count(c, w) + 1 ELSE c[w]]

----------------------------------------------------------------------------
(* The regular expressions of the engine. *)

\* The characters re.escape puts a backslash before.
IsSpecial(c) == c \in {".", "|", " ", "\t", "\n", "(", ")", "?", "*", "+", "-"}

\* re.escape(k): one pattern atom per character, escaped when special.
ReEscape(k) == [i \in 1..Len(k) |-> [esc |-> IsSpecial(k[i]), ch |-> k[i]]]

\* The unescaped | that '|'.join puts between the alternatives.
Bar == [esc |-> FALSE, ch |-> "|"]

\* '|'.join(parts)
RECURSIVE JoinBar(_)
JoinBar(parts) ==
    IF parts = <<>> THEN <<>>
    ELSE IF Len(parts) = 1 THEN parts[1]
    ELSE parts[1] \o <<Bar>> \o JoinBar(Tail(parts))

\* re.compile on the body of the group: the alternatives between the
\* unescaped bars, in order.  A body without a bar is one alternative, also
\* when it is empty.
RECURSIVE SplitAlternatives(_, _)
SplitAlternatives(body, current) ==
    IF body = <<>> THEN <<current>>
    ELSE IF Head(body) = Bar
        THEN <<current>> \o SplitAlternatives(Tail(body), <<>>)
        ELSE SplitAlternatives(Tail(body), Append(current, Head(body)))

\* Whether one atom of a compiled pattern matches one character.
AtomMatches(atom, c) ==
    IF atom.esc THEN c = atom.ch
    ELSE IF atom.ch = "." THEN c # "\n"
    ELSE c = atom.ch

\* \b at offset p of s (0 = before the first character): exactly one of the
\* two neighbours is a word character.
WordBoundary(s, p) ==
    (p > 0 /\ IsWord(s[p])) # (p < Len(s) /\ IsWord(s[p + 1]))

\* Whether \b(alt)\b matches s at offset p. After an empty match the next
\* search of sub must advance: an empty match at its first offset fails.
AltMatchesAt(alt, s, p, mustAdvance) ==
    /\ WordBoundary(s, p)
    /\ p + Len(alt) <= Len(s)
    /\ \A j \in 1..Len(alt) : AtomMatches(alt[j], s[p + j])
    /\ WordBoundary(s, p + Len(alt))
    /\ ~(mustAdvance /\ Len(alt) = 0)

\* Search that takes the longest alternative that matches at the leftmost
\* offset (leftmost-longest), the first of them when several are as long.
Search_longest(alts, s, start, mustAdvance) ==
    LET Hit(p, i) == AltMatchesAt(alts[i], s, p, mustAdvance /\ p = start)
        at == {p \in start..Len(s) : \E i \in 1..Len(alts) : Hit(p, i)}
    IN IF at = {} THEN [pos |-> 0, alt |-> 0]
       ELSE LET p == CHOOSE q \in at : \A r \in at : q <= r
                i == CHOOSE a \in 1..Len(alts) :
                        /\ Hit(p, a)
                        /\ \A b \in 1..Len(alts) : Hit(p, b) =>
                            \/ Len(alts[b]) < Len(alts[a])
                            \/ Len(alts[b]) = Len(alts[a]) /\ a <= b
            IN [pos |-> p, alt |-> i]

\* Pattern.search from offset start: the leftmost offset at which some
\* alternative matches, and there the first alternative that does
\* (alt = 0: no match).
Search(alts, s, start, mustAdvance) ==
    LET Hit(p, i) == AltMatchesAt(alts[i], s, p, mustAdvance /\ p = start)
        at == {p \in start..Len(s) : \E i \in 1..Len(alts) : Hit(p, i)}
    IN IF at = {} THEN [pos |-> 0, alt |-> 0]
       ELSE LET p == CHOOSE q \in at : \A r \in at : q <= r
                i == CHOOSE a \in 1..Len(alts) :
                        /\ Hit(p, a)
                        /\ \A b \in 1..(a - 1) : ~Hit(p, b)
            IN [pos |-> p, alt |-> i]

----------------------------------------------------------------------------
(* cleanser.py *)

\* .dropna(): rows with a missing cell are dropped.
DropNa(df) == SelectSeq(df, LAMBDA r : r.shorthand # NaN /\ r.full_form # NaN)

\* The dict comprehension of load_replacements over the first n rows.
RECURSIVE BuildReplacements(_, _)
BuildReplacements(df, n) ==
    IF n = 0 THEN <<>>
    ELSE DictSet(BuildReplacements(df, n - 1),
                 Lower(Strip(df[n].shorthand)),
                 Lower(Strip(df[n].full_form)))

\* replacements.keys(), in insertion order.
KeyList(d) == [i \in 1..Len(d) |-> d[i].k]

\* re.compile(r'\b(' + '|'.join(re.escape(k) for k in keys) + r')\b')
CompilePattern(keys) ==
    SplitAlternatives(JoinBar([i \in 1..Len(keys) |-> ReEscape(keys[i])]), <<>>)

\* load_replacements(rep_file)
load_replacements(csv) ==
    LET rep_df == DropNa(csv)
        table == BuildReplacements(rep_df, Len(rep_df))
    IN [replacements |-> table, pattern |-> CompilePattern(KeyList(table))]

\* Kept with the comma left out of the character class.
Kept_no_comma(eng, c) ==
    \/ IsWord(c)
    \/ IsSpace(c)
    \/ c = "/" /\ eng # "cleansing4"

\* The allowed characters of apply_regex: [^\w\s,\/] removes the others.
\* cleansing4.py has the class [^\w\s,], which removes the slash as well.
Kept(eng, c) ==
    \/ IsWord(c)
    \/ IsSpace(c)
    \/ c = ","
    \/ c = "/" /\ eng # "cleansing4"

\* re.sub(r'\s+', ' ', text): every maximal run of whitespace becomes a space.
RECURSIVE CollapseSpace(_)
CollapseSpace(s) ==
    IF s = <<>> THEN <<>>
    ELSE IF IsSpace(Head(s))
        THEN <<" ">> \o CollapseSpace(LStrip(s))
        ELSE <<Head(s)>> \o CollapseSpace(Tail(s))

\* apply_regex with its two substitutions in the other order: whitespace is
\* collapsed and trimmed before the symbols are removed.
apply_regex_collapse_first(eng, s) ==
    SelectSeq(Strip(CollapseSpace(s)), LAMBDA c : Kept(eng, c))

\* apply_regex(text), in the copy eng of the engine.
apply_regex(eng, s) ==
    LET removed == SelectSeq(s, LAMBDA c : Kept(eng, c))
    IN Strip(CollapseSpace(removed))

\* replace_match(match), for the match of word: the count is taken before
\* the lookup, and the lookup raises KeyError for a word that is no key.
replace_match(word, table, c) ==
    [counter |-> Incr(c, word),
     raised |-> ~DictHas(table, word),
     repl |-> IF DictHas(table, word) THEN DictGet(table, word) ELSE <<>>]

\* pattern.sub(replace_match, s) from offset i on: acc holds what is built.
RECURSIVE Sub(_, _, _, _, _, _)
Sub(alts, table, s, i, mustAdvance, acc) ==
    LET m == Search(alts, s, i, mustAdvance)
    IN IF m.alt = 0
        THEN [acc EXCEPT !.text = @ \o SubSeq(s, i + 1, Len(s))]
        ELSE LET b == m.pos
                 e == b + Len(alts[m.alt])
                 word == Lower(SubSeq(s, b + 1, e))
                 r == replace_match(word, table, acc.counter)
                 seen == Append(acc.matches, [start |-> b, end |-> e, word |-> word])
             IN IF r.raised
                 THEN [acc EXCEPT !.counter = r.counter, !.matches = seen,
                                  !.raised = TRUE]
                 ELSE Sub(alts, table, s, e, e = b,
                          [text |-> acc.text \o SubSeq(s, i + 1, b) \o r.repl,
                           counter |-> r.counter,
                           matches |-> seen,
                           raised |-> FALSE])

\* bulk_replace that expands until a second pass: the result of the first
\* sub is scanned again.
bulk_replace_rescan(t, table, alts, c) ==
    LET first == Sub(alts, table, Lower(Str(t)), 0, FALSE,
                     [text |-> <<>>, counter |-> c, matches |-> <<>>,
                      raised |-> FALSE])
    IN IF first.raised THEN first
       ELSE Sub(alts, table, first.text, 0, FALSE,
                [first EXCEPT !.text = <<>>])

\* bulk_replace(text, replacements, pattern, counter)
bulk_replace(t, table, alts, c) ==
    Sub(alts, table, Lower(Str(t)), 0, FALSE,
        [text |-> <<>>, counter |-> c, matches |-> <<>>, raised |-> FALSE])

----------------------------------------------------------------------------
(* Inputs. *)

\* The four copies of the engine.
Engines == {"cleanser", "cleaner", "cleansing4", "cleansing6"}

\* Rows of the dictionary CSV: shorthand with capitals and spaces around it,
\* shorthand that ends with a non-word character and has another shorthand
\* as a prefix, a blank shorthand, a full form that holds a shorthand, and
\* missing cells.
DictionaryRows ==
    { [shorthand |-> <<"a">>,           full_form |-> <<"X", " ">>],
      [shorthand |-> <<" ", "A">>,      full_form |-> <<"a", " ", "A">>],
      [shorthand |-> <<"a", ".">>,      full_form |-> <<"y">>],
      [shorthand |-> <<" ">>,           full_form |-> <<"x">>],
      [shorthand |-> NaN,               full_form |-> <<"x">>],
      [shorthand |-> <<"a">>,           full_form |-> NaN] }

Dictionaries == SeqsUpTo(DictionaryRows, MaxRows)

\* Arguments of direct calls of bulk_replace.
TextAlphabet == {"a", "A", ".", " "}

Texts == StringsUpTo(TextAlphabet, MaxTextLen)

\* Arguments of direct calls of apply_regex.
NormAlphabet == {"a", "_", "/", ",", "!", " ", "\t"}

NormTexts == StringsUpTo(NormAlphabet, MaxNormLen)

\* Cells of the 'Clinical Notes' column.
NoteValues ==
    { <<"A", " ", "\t", "a", "!">>,
      <<"a", ".", "a", "/">>,
      NaN }

Frames == SeqsUpTo(NoteValues, MaxUnits)

----------------------------------------------------------------------------
(* The application: app.py loads the dictionary once and calls clean_notes  *)
(* for every upload.                                                       *)

Init ==
    /\ engine = "cleanser"
    /\ rows \in Dictionaries
    /\ replacements = <<>>
    /\ pattern = <<>>
    /\ pc = "start"
    /\ notes = <<>>
    /\ original = <<>>
    /\ cleaned = <<>>
    /\ counter = EmptyCounter
    /\ matches = <<>>
    /\ run = 0
    /\ text = <<>>
    /\ out = <<>>
    /\ out2 = <<>>

\* replacements, pattern = load_replacements(...)
LoadReplacements ==
    /\ pc = "start"
    /\ LET r == load_replacements(rows)
       IN /\ replacements' = r.replacements
          /\ pattern' = r.pattern
    /\ pc' = "loaded"
    /\ UNCHANGED <<engine, rows, notes, original, cleaned, counter, matches,
                   run, text, out, out2>>

\* StartRun with one counter for all runs (a module-level Counter).
StartRun_shared_counter ==
    /\ pc \in {"loaded", "done", "raised"}
    /\ run < MaxRuns
    /\ \E df \in Frames :
        /\ notes' = df
        /\ original' = [i \in 1..Len(df) |-> Str(df[i])]
    /\ cleaned' = <<>>
    /\ matches' = <<>>
    /\ run' = run + 1
    /\ pc' = "running"
    /\ UNCHANGED <<engine, rows, replacements, pattern, counter, text, out,
                   out2>>

\* clean_notes, up to the first row: a new Counter, and the notes as text.
\* A run that raised is caught by index(), and the next upload starts a run.
StartRun ==
    /\ pc \in {"loaded", "done", "raised"}
    /\ run < MaxRuns
    /\ \E df \in Frames :
        /\ notes' = df
        /\ original' = [i \in 1..Len(df) |-> Str(df[i])]
    /\ counter' = EmptyCounter
    /\ cleaned' = <<>>
    /\ matches' = <<>>
    /\ run' = run + 1
    /\ pc' = "running"
    /\ UNCHANGED <<engine, rows, replacements, pattern, text, out, out2>>

\* CleanRow with the two steps in the other order: the note is normalized
\* before the shorthand is replaced.
CleanRow_normalize_first(eng, t, table, alts, c) ==
    LET r == bulk_replace(apply_regex(eng, Str(t)), table, alts, c)
    IN [cleaned |-> r.text, counter |-> r.counter,
        matches |-> r.matches, raised |-> r.raised]

\* What the lambda of clean_notes does for one row, given the counter so far.
CleanRow(eng, t, table, alts, c) ==
    LET r == bulk_replace(t, table, alts, c)
    IN [cleaned |-> apply_regex(eng, r.text), counter |-> r.counter,
        matches |-> r.matches, raised |-> r.raised]

\* clean_notes: the next row of df['Original Notes'].apply(...).
ProcessUnit ==
    /\ pc = "running"
    /\ Len(cleaned) < Len(original)
    /\ LET r == CleanRow(engine, original[Len(cleaned) + 1], replacements,
                         pattern, counter)
       IN /\ counter' = r.counter
          /\ matches' = r.matches
          /\ cleaned' = IF r.raised THEN cleaned ELSE Append(cleaned, r.cleaned)
          /\ pc' = IF r.raised THEN "raised" ELSE "running"
    /\ UNCHANGED <<engine, rows, replacements, pattern, notes, original, run,
                   text, out, out2>>

\* clean_notes: return df, counter.
FinishRun ==
    /\ pc = "running"
    /\ Len(cleaned) = Len(original)
    /\ pc' = "done"
    /\ UNCHANGED <<engine, rows, replacements, pattern, notes, original,
                   cleaned, counter, matches, run, text, out, out2>>

Next == LoadReplacements \/ StartRun \/ ProcessUnit \/ FinishRun

Spec == Init /\ [][Next]_vars

----------------------------------------------------------------------------
(* Direct calls of bulk_replace on a loaded dictionary. *)

\* bulk_replace(text, replacements, pattern, Counter())
BulkReplace ==
    /\ pc = "loaded"
    /\ \E t \in Texts :
        LET r == bulk_replace(t, replacements, pattern, counter)
        IN /\ text' = t
           /\ out' = r.text
           /\ counter' = r.counter
           /\ matches' = r.matches
           /\ pc' = IF r.raised THEN "raised" ELSE "replaced"
    /\ UNCHANGED <<engine, rows, replacements, pattern, notes, original,
                   cleaned, run, out2>>

NextReplace == LoadReplacements \/ BulkReplace

SpecReplace == Init /\ [][NextReplace]_vars

----------------------------------------------------------------------------
(* Direct calls of apply_regex, in each copy of the engine. *)

InitNorm ==
    /\ engine \in Engines
    /\ rows = <<>>
    /\ replacements = <<>>
    /\ pattern = <<>>
    /\ pc = "start"
    /\ notes = <<>>
    /\ original = <<>>
    /\ cleaned = <<>>
    /\ counter = EmptyCounter
    /\ matches = <<>>
    /\ run = 0
    /\ text = <<>>
    /\ out = <<>>
    /\ out2 = <<>>

\* out = apply_regex(text)
Normalize ==
    /\ pc = "start"
    /\ \E t \in NormTexts :
        /\ text' = t
        /\ out' = apply_regex(engine, t)
    /\ pc' = "normalized"
    /\ UNCHANGED <<engine, rows, replacements, pattern, notes, original,
                   cleaned, counter, matches, run, out2>>

\* out2 = apply_regex(out)
Renormalize ==
    /\ pc = "normalized"
    /\ out2' = apply_regex(engine, out)
    /\ pc' = "renormalized"
    /\ UNCHANGED <<engine, rows, replacements, pattern, notes, original,
                   cleaned, counter, matches, run, text, out>>

NextNorm == Normalize \/ Renormalize

SpecNorm == InitNorm /\ [][NextNorm]_vars

----------------------------------------------------------------------------
(* Properties of apply_regex (SpecNorm). *)

\* Length of the run of non-whitespace characters that s begins with.
RECURSIVE WordLen(_)
WordLen(s) == IF s = <<>> \/ IsSpace(Head(s)) THEN 0 ELSE 1 + WordLen(Tail(s))

\* The maximal runs of non-whitespace characters of s, in order.
RECURSIVE WordsOf(_)
WordsOf(s) ==
    IF s = <<>> THEN <<>>
    ELSE IF IsSpace(Head(s)) THEN WordsOf(Tail(s))
    ELSE LET n == WordLen(s)
         IN <<SubSeq(s, 1, n)>> \o WordsOf(SubSeq(s, n + 1, Len(s)))

\* The words joined by single spaces.
RECURSIVE JoinSpace(_)
JoinSpace(ws) ==
    IF ws = <<>> THEN <<>>
    ELSE IF Len(ws) = 1 THEN ws[1]
    ELSE ws[1] \o <<" ">> \o JoinSpace(Tail(ws))

\* s without the characters that are not word characters, whitespace, commas
\* or (when keepSlash) slashes, its whitespace runs collapsed, and trimmed.
Normalized(s, keepSlash) ==
    JoinSpace(WordsOf(SelectSeq(s, LAMBDA c :
        IsWord(c) \/ IsSpace(c) \/ c = "," \/ (keepSlash /\ c = "/"))))

\* C5 as stated: in every copy of the engine apply_regex keeps word
\* characters, whitespace, commas and slashes, collapses each whitespace run
\* to one space and trims.
C5_EveryCopyKeepsSlash ==
    pc \in {"normalized", "renormalized"} => out = Normalized(text, TRUE)

\* C5 amended: that holds in cleanser.py, cleaner.py and cleansing6.py, while
\* apply_regex of cleansing4.py removes slashes too and keeps only word
\* characters, whitespace and commas; the empty string maps to itself.
C5_KeepsSlashExceptCleansing4 ==
    pc \in {"normalized", "renormalized"} =>
        /\ out = Normalized(text, engine # "cleansing4")
        /\ text = <<>> => out = <<>>

\* C5 witness: cleansing4.py normalizes a text with a slash, a comma, a
\* removed symbol and whitespace.
C5_Witness ==
    /\ pc = "normalized"
    /\ engine = "cleansing4"
    /\ \E i, j, k, l \in 1..Len(text) :
        text[i] = "/" /\ text[j] = "," /\ text[k] = "!" /\ IsSpace(text[l])
    /\ out = <<",">>

\* C6: apply_regex(apply_regex(T)) = apply_regex(T).
C6_Idempotent == pc = "renormalized" => out2 = out

\* C6 witness: a second normalization of a text the first one changed by
\* removing a symbol between two whitespace characters.
C6_Witness ==
    /\ pc = "renormalized"
    /\ \E i \in 1..(Len(text) - 2) :
        IsSpace(text[i]) /\ text[i + 1] = "!" /\ IsSpace(text[i + 2])
    /\ out # <<>>
    /\ out # text

----------------------------------------------------------------------------
(* Properties of load_replacements and bulk_replace (SpecReplace). *)

\* .strip().lower() of a cell of the dictionary.
NormCell(x) == Lower(Strip(x))

\* The rows of the dictionary CSV that have both cells.
ValidRows == {i \in 1..Len(rows) :
                rows[i].shorthand # NaN /\ rows[i].full_form # NaN}

\* The literal an alternative of the pattern stands for.
LiteralOf(alt) == [j \in 1..Len(alt) |-> alt[j].ch]

\* Whether every atom of an alternative matches one character only.
IsLiteral(alt) ==
    \A j \in 1..Len(alt) : alt[j].esc \/ alt[j].ch \notin {".", "|"}

\* C3: the table has exactly one mapping per normalized shorthand, the one of
\* the last row with that shorthand, and the alternatives of the pattern are
\* the keys of the table, each once and as a literal.
C3_LastRowWins ==
    pc # "start" =>
        LET keys == DictKeys(replacements)
        IN /\ keys = {NormCell(rows[i].shorthand) : i \in ValidRows}
           /\ Len(replacements) = Cardinality(keys)
           /\ \A i \in ValidRows :
                (\A j \in ValidRows : j > i =>
                    NormCell(rows[j].shorthand) # NormCell(rows[i].shorthand))
                => DictGet(replacements, NormCell(rows[i].shorthand))
                     = NormCell(rows[i].full_form)
           /\ keys # {} =>
                /\ Len(pattern) = Cardinality(keys)
                /\ \A i \in 1..Len(pattern) : IsLiteral(pattern[i])
                /\ {LiteralOf(pattern[i]) : i \in 1..Len(pattern)} = keys

\* C3 witness: two rows whose shorthands differ as written, are the same once
\* normalized, and have different full forms, have been loaded.
C3_Witness ==
    /\ pc = "loaded"
    /\ \E i, j \in ValidRows :
        /\ i < j
        /\ rows[i].shorthand # rows[j].shorthand
        /\ NormCell(rows[i].shorthand) = NormCell(rows[j].shorthand)
        /\ NormCell(rows[i].full_form) # NormCell(rows[j].full_form)
        /\ Len(replacements) = 1

\* k occurs in s at offset p as a token: with a non-word character or an edge
\* of the string on each side.
TokenAt(k, s, p) ==
    /\ p + Len(k) <= Len(s)
    /\ SubSeq(s, p + 1, p + Len(k)) = k
    /\ p = 0 \/ ~IsWord(s[p])
    /\ p + Len(k) = Len(s) \/ ~IsWord(s[p + Len(k) + 1])

\* The offsets at which k occurs in s as a token.
TokenOffsets(k, s) == {p \in 0..Len(s) : TokenAt(k, s, p)}

\* C1 as stated, for tables without an empty key: when a key occurs once in
\* the text as a token, bulk_replace counts the key exactly once, and when no
\* other key occurs as a token the result is the text with that occurrence
\* replaced by the full form and nothing else is counted.
C1_TokenReplacedOnce ==
    (pc \in {"replaced", "raised"} /\ <<>> \notin DictKeys(replacements)) =>
        LET s == Lower(text)
            keys == DictKeys(replacements)
        IN \A k \in keys : \A p \in TokenOffsets(k, s) :
            TokenOffsets(k, s) = {p} =>
                /\ pc = "replaced"
                /\ Count(counter, k) = 1
                /\ (\A o \in keys \ {k} : TokenOffsets(o, s) = {}) =>
                    /\ out = SubSeq(s, 1, p) \o DictGet(replacements, k)
                               \o SubSeq(s, p + Len(k) + 1, Len(s))
                    /\ DOMAIN counter = {k}

\* C4 as stated, for tables that have keys, none of them empty: when no key
\* of the table occurs in the text as a token, the result is the lowercased
\* text and nothing is counted.
C4_OnlyTokensReplaced ==
    (/\ pc \in {"replaced", "raised"}
     /\ DictKeys(replacements) # {}
     /\ <<>> \notin DictKeys(replacements)) =>
        LET s == Lower(text)
        IN (\A k \in DictKeys(replacements) : TokenOffsets(k, s) = {}) =>
            /\ pc = "replaced"
            /\ out = s
            /\ counter = EmptyCounter

\* The result of sub rebuilt from the scanned string and the matches: what
\* lies between the matches, and the full form of each match.
RECURSIVE Rebuild(_, _, _, _)
Rebuild(s, ms, from, table) ==
    IF ms = <<>> THEN SubSeq(s, from + 1, Len(s))
    ELSE SubSeq(s, from + 1, Head(ms).start)
            \o DictGet(table, Head(ms).word)
            \o Rebuild(s, Tail(ms), Head(ms).end, table)

\* C10: the matches of one bulk_replace are spans of the lowercased input,
\* from left to right and without overlap, the result is the input with each
\* span replaced by its full form, and each match is counted once: nothing
\* is matched or counted in the text that was inserted.
C10_SinglePass ==
    pc = "replaced" =>
        LET s == Lower(text)
            n == Len(matches)
        IN /\ \A i \in 1..n :
                /\ 0 <= matches[i].start
                /\ matches[i].start <= matches[i].end
                /\ matches[i].end <= Len(s)
                /\ SubSeq(s, matches[i].start + 1, matches[i].end)
                     = matches[i].word
           /\ \A i, j \in 1..n : i < j =>
                /\ matches[i].end <= matches[j].start
                /\ matches[i].start < matches[j].end
           /\ out = Rebuild(s, matches, 0, replacements)
           /\ \A w \in DOMAIN counter \cup {matches[i].word : i \in 1..n} :
                Count(counter, w) = Cardinality({i \in 1..n : matches[i].word = w})

\* C10 witness: one match was replaced by a full form in which the pattern
\* matches again.
C10_Witness ==
    /\ pc = "replaced"
    /\ Len(matches) = 1
    /\ matches[1].word # <<>>
    /\ Search(pattern, out, 0, FALSE).alt # 0
    /\ \E k \in DictKeys(replacements) : \E p \in 0..Len(out) :
        /\ TokenAt(k, out, p)
        /\ p >= matches[1].start
        /\ p + Len(k) <= matches[1].start
                           + Len(DictGet(replacements, matches[1].word))

----------------------------------------------------------------------------
(* Properties of clean_notes (Spec). *)

\* C2 as stated: with an empty table the pattern matches nothing, a run does
\* not raise, and a finished run has an empty counter and the cleaned text
\* apply_regex(lowercase(text)) for each unit.
C2_EmptyDictionaryPassesThrough ==
    (pc \in {"done", "raised"} /\ DictKeys(replacements) = {}) =>
        /\ pc = "done"
        /\ \A i \in 1..Len(original) :
            Search(pattern, Lower(original[i]), 0, FALSE).alt = 0
        /\ Len(cleaned) = Len(original)
        /\ \A i \in 1..Len(cleaned) :
            cleaned[i] = apply_regex(engine, Lower(original[i]))
        /\ counter = EmptyCounter

\* The text apply_regex(bulk_replace(lowercase(str(t)))) of one unit, from the
\* unit and the dictionary alone.
CleanedOf(t) ==
    apply_regex(engine,
                bulk_replace(t, replacements, pattern, EmptyCounter).text)

\* C7: the run keeps the original text of every unit, has one cleaned text
\* for each unit processed, in the order of the units, each the function
\* CleanedOf of its own unit whatever the counter held, and a run that
\* returns has one cleaned text per unit.
C7_OneCleanedTextPerUnit ==
    pc \in {"running", "done", "raised"} =>
        /\ Len(original) = Len(notes)
        /\ \A i \in 1..Len(notes) : original[i] = Str(notes[i])
        /\ Len(cleaned) <= Len(original)
        /\ \A i \in 1..Len(cleaned) : cleaned[i] = CleanedOf(original[i])
        /\ pc = "done" => Len(cleaned) = Len(notes)

\* C7 witness: a run has returned two different cleaned texts, the second
\* after the first unit had been counted, each changed by a replacement and
\* by the normalization.
C7_Witness ==
    /\ pc = "done"
    /\ Len(notes) = 2
    /\ cleaned[1] # cleaned[2]
    /\ \A i \in 1..2 :
        /\ bulk_replace(original[i], replacements, pattern, EmptyCounter).counter
             # EmptyCounter
        /\ bulk_replace(original[i], replacements, pattern, EmptyCounter).text
             # cleaned[i]

\* The counter of one unit processed alone.
UnitCounter(t) == bulk_replace(t, replacements, pattern, EmptyCounter).counter

\* The sum of two counters.
AddCounters(c, d) ==
    [w \in DOMAIN c \cup DOMAIN d |-> Count(c, w) + Count(d, w)]

\* The sum of the counters of the first n units, each processed alone.
RECURSIVE SumUnitCounters(_, _)
SumUnitCounters(units, n) ==
    IF n = 0 THEN EmptyCounter
    ELSE AddCounters(SumUnitCounters(units, n - 1), UnitCounter(units[n]))

\* The counter a run over the units returns, threaded through the rows.
RECURSIVE RunCounter(_, _)
RunCounter(units, c) ==
    IF units = <<>> THEN c
    ELSE RunCounter(Tail(units),
                    CleanRow(engine, Head(units), replacements, pattern, c).counter)

\* The units at the indices of a set, in order.
RECURSIVE Pick(_, _, _)
Pick(units, S, i) ==
    IF i > Len(units) THEN <<>>
    ELSE (IF i \in S THEN <<units[i]>> ELSE <<>>) \o Pick(units, S, i + 1)

\* The state part of C8: the counter is the sum of what each unit processed
\* so far counts alone (so it is empty when a run starts and holds nothing
\* of an earlier run), and the counter of a run that returned is the one of
\* every order of its units and the sum of the counters of separate runs
\* over any two parts of them.
C8_CounterIsSum ==
    /\ pc = "running" => counter = SumUnitCounters(original, Len(cleaned))
    /\ pc = "done" =>
        LET n == Len(original)
        IN /\ counter = SumUnitCounters(original, n)
           /\ \A f \in Permutations(1..n) :
                RunCounter([i \in 1..n |-> original[f[i]]], EmptyCounter) = counter
           /\ \A S \in SUBSET (1..n) :
                AddCounters(RunCounter(Pick(original, S, 1), EmptyCounter),
                            RunCounter(Pick(original, (1..n) \ S, 1), EmptyCounter))
                  = counter

\* The step part of C8: within a run no count decreases.
C8_NoDecrease ==
    run' = run => \A w \in DOMAIN counter :
                    w \in DOMAIN counter' /\ counter'[w] >= counter[w]

\* C8: the counter starts empty in each run, never decreases during it, and
\* ends as the per-key sum over the units of the run, in any order and over
\* any partition, without the counts of an earlier run.
C8_RunCounter == [](C8_CounterIsSum) /\ [][C8_NoDecrease]_vars

\* C8 witness: the second run has returned a counter to which both of its
\* units, which differ, added counts.
C8_Witness ==
    /\ pc = "done"
    /\ run = 2
    /\ Len(original) = 2
    /\ original[1] # original[2]
    /\ UnitCounter(original[1]) # EmptyCounter
    /\ UnitCounter(original[2]) # EmptyCounter
    /\ UnitCounter(original[1]) # UnitCounter(original[2])
    /\ \E w \in DOMAIN counter : counter[w] >= 3

\* C9 as stated: the lookup replacements[word] never misses, every match is
\* a key of the table, and every key of the counter is a key of the table.
C9_LookupNeverMisses ==
    /\ pc # "raised"
    /\ \A i \in 1..Len(matches) : DictHas(replacements, matches[i].word)
    /\ \A w \in DOMAIN counter : DictHas(replacements, w)

----------------------------------------------------------------------------
(* Properties of the keys of the table (SpecReplace). *)

\* C11 as stated: every key of the table is non-empty, trimmed and lowercase;
\* the keys are the normalized shorthands of the rows that have both cells
\* and a shorthand that is not empty once trimmed; and for a table with keys
\* every alternative of the pattern is one of those keys, none of them empty.
C11_KeysNonEmpty ==
    pc # "start" =>
        LET keys == DictKeys(replacements)
        IN /\ \A k \in keys : k # <<>> /\ Strip(k) = k /\ Lower(k) = k
           /\ keys = {NormCell(rows[i].shorthand) :
                        i \in {j \in ValidRows : Strip(rows[j].shorthand) # <<>>}}
           /\ keys # {} =>
                \A i \in 1..Len(pattern) :
                    pattern[i] # <<>> /\ LiteralOf(pattern[i]) \in keys

\* Whether the key k can match in s at offset p: it stands there, between two
\* word boundaries.
KeyMatchesAt(k, s, p) ==
    /\ p + Len(k) <= Len(s)
    /\ SubSeq(s, p + 1, p + Len(k)) = k
    /\ WordBoundary(s, p)
    /\ WordBoundary(s, p + Len(k))

\* The first row of the dictionary whose normalized shorthand is k.
FirstRow(k) ==
    CHOOSE i \in ValidRows :
        /\ NormCell(rows[i].shorthand) = k
        /\ \A j \in ValidRows : j < i => NormCell(rows[j].shorthand) # k

\* C12: for every token bulk_replace replaced, each other non-empty key that
\* can match at the same offset first appears in the dictionary rows after
\* the key that was matched, whatever their lengths, and no other token is
\* matched at that offset.
C12_FirstKeyWins ==
    pc = "replaced" =>
        LET s == Lower(text)
            keys == DictKeys(replacements) \ {<<>>}
        IN \A i \in 1..Len(matches) : matches[i].word # <<>> =>
            /\ \A k \in keys \ {matches[i].word} :
                KeyMatchesAt(k, s, matches[i].start)
                    => FirstRow(matches[i].word) < FirstRow(k)
            /\ \A j \in 1..Len(matches) :
                (j # i /\ matches[j].word # <<>>)
                    => matches[j].start # matches[i].start

\* C12 witness: a key was matched and counted where a longer key, later in
\* the table, can match as well, and the longer key was not counted.
C12_Witness ==
    /\ pc = "replaced"
    /\ \E i \in 1..Len(matches) : \E k \in DictKeys(replacements) :
        /\ matches[i].word # <<>>
        /\ Len(k) > Len(matches[i].word)
        /\ KeyMatchesAt(k, Lower(text), matches[i].start)
        /\ Count(counter, matches[i].word) >= 1
        /\ Count(counter, k) = 0

====
